---- MODULE Spec2Model ----
(***************************************************************************)
(* A model of block_chain.py: the Block record and its content hash, the   *)
(* Blockchain ledger (chain, pending transactions), the proof-of-work      *)
(* search, mining, and chain validation.                                   *)
(*                                                                         *)
(* Python list positions are 0-based: the block Python calls chain[i] is   *)
(* chain[i + 1] here.                                                      *)
(*                                                                         *)
(* A Python str is a record [chars, rest]: chars are its leading           *)
(* characters, one TLA+ string per character (or per word, for keys and    *)
(* identifiers), and rest is <<>> when chars is the whole string.  A text  *)
(* built by concatenation or serialisation is the sequence of its pieces.  *)
(*                                                                         *)
(* hashlib.sha256 is a library function.  Its hexdigest is modelled as a   *)
(* str whose first four hex characters are computed from the input by a    *)
(* small mixing function and whose remaining sixty characters are stood    *)
(* for by the input itself (rest = <<input>>): distinct inputs have        *)
(* distinct digests (collision freedom, which the program relies on) and   *)
(* the leading characters vary with the input (which the proof-of-work     *)
(* search relies on).                                                      *)
(***************************************************************************)
EXTENDS Integers, Sequences, FiniteSets, Bags, TLC

VARIABLES chain, pending, now, ret, added, tlog

vars == <<chain, pending, now, ret, added, tlog>>

(* ------------------------------- bounds -------------------------------- *)

\* The ledger is explored up to this many blocks (genesis included).
MaxChain == 3
\* AddEntry is explored while pending holds fewer entries than this.
MaxPending == 2
\* time() returns values in 0..MaxTime, never decreasing.
MaxTime == 1
\* The proof-of-work search is followed up to this nonce.
MaxNonce == 40
\* Texts given directly to proof_of_work have at most this many characters.
MaxTargetLen == 2

(* --------------------------- input domains ----------------------------- *)

Senders == {"Alice"}
Recipients == {"Bob"}
\* Amounts are counted in tenths: 105 is 10.5.
Amounts == {105}
Miners == {"GHCoderAddress", "Alice"}

\* The values time() can return at or after time t.
Times(t) == t..MaxTime

(* ------------------------------- texts --------------------------------- *)

HexChars == <<"0", "1", "2", "3", "4", "5", "6", "7",
              "8", "9", "a", "b", "c", "d", "e", "f">>

\* The str whose characters are exactly chars.
S(chars) == [chars |-> chars, rest |-> <<>>]

RECURSIVE Digits(_)
Digits(n) == IF n < 10 THEN <<HexChars[n + 1]>>
             ELSE Digits(n \div 10) \o <<HexChars[(n % 10) + 1]>>

\* str(n) for a non-negative integer: its decimal digits, most significant first.
Str(n) == S(Digits(n))

\* A float counted in tenths, as json.dumps/repr writes it: "10.5", "1.0".
FloatStr(a) == S(Digits(a \div 10) \o <<".">> \o Digits(a % 10))

\* s[:k]
Take(s, k) == SubSeq(s.chars, 1, IF k < Len(s.chars) THEN k ELSE Len(s.chars))

HexVal == [c \in {HexChars[i] : i \in 1..16} |->
             (CHOOSE i \in 1..16 : HexChars[i] = c) - 1]

\* The numeric value the mixing function gives a character.
TokVal(c) == IF c \in DOMAIN HexVal THEN HexVal[c] ELSE 16

\* The mix of the known characters of the str s: the sum of its characters'
\* values, each weighted by its position (a bag's cardinality is the sum of
\* its counts).
StrMix(s) ==
    1 + Len(s.rest)
      + BagCardinality([j \in 1..Len(s.chars) |->
                           ((j % 3) * 2 + 1) * (TokVal(s.chars[j]) + 1)])

\* The mix of the pieces of text, each weighted by its position.
MixSum(text) ==
    BagCardinality([i \in 1..Len(text) |->
                      ((i % 4) * 2 + 1) * StrMix(text[i])])

\* The leading four characters of the digest of text.
Lead(text) ==
    LET m == (MixSum(text) + 7) % 16
        d(k, p) == HexChars[1 + ((m \div p) % 2) * (3 * k)]
    IN  <<d(1, 1), d(2, 2), d(3, 4), d(4, 8)>>

\* hashlib.sha256(text.encode()).hexdigest()
Sha256Hex(text) == [chars |-> Lead(text), rest |-> <<text>>]

(* ------------------------------- Block --------------------------------- *)

\* json.dumps of one entry of a block's data, keys sorted.
EntryJson(e) ==
    IF "manipulated" \in DOMAIN e
    THEN <<S(<<"{\"manipulated\": true}">>)>>
    ELSE IF "timestamp" \in DOMAIN e
    THEN <<S(<<"{\"amount\": ">>), FloatStr(e.amount),
           S(<<", \"recipient\": \"">>), S(<<e.recipient>>),
           S(<<"\", \"sender\": \"">>), S(<<e.sender>>),
           S(<<"\", \"timestamp\": ">>), Str(e.timestamp), S(<<"}">>)>>
    ELSE <<S(<<"{\"amount\": ">>), Str(e.amount),
           S(<<", \"recipient\": \"">>), S(<<e.recipient>>),
           S(<<"\", \"sender\": \"">>), S(<<e.sender>>), S(<<"\"}">>)>>

RECURSIVE DataJsonFrom(_, _)
DataJsonFrom(data, i) ==
    IF i > Len(data) THEN <<>>
    ELSE (IF i > 1 THEN <<S(<<", ">>)>> ELSE <<>>) \o EntryJson(data[i])
         \o DataJsonFrom(data, i + 1)

\* json.dumps({...}, sort_keys=True) of a block's five content fields.
BlockJson(b) ==
    <<S(<<"{\"data\": [">>)>> \o DataJsonFrom(b.data, 1)
    \o <<S(<<"], \"index\": ">>), Str(b.index),
         S(<<", \"nonce\": ">>), Str(b.nonce),
         S(<<", \"previous_hash\": \"">>), b.previous_hash,
         S(<<"\", \"timestamp\": ">>), Str(b.timestamp), S(<<"}">>)>>

\* calculate_hash leaving the nonce out of the serialisation.
calculate_hash_NoNonce(b) == Sha256Hex(BlockJson([b EXCEPT !.nonce = 0]))

\* Block.calculate_hash
calculate_hash(b) == Sha256Hex(BlockJson(b))

\* Block.__init__
Block(index, timestamp, data, previous_hash, nonce) ==
    LET fields == [index |-> index, timestamp |-> timestamp, data |-> data,
                   previous_hash |-> previous_hash, nonce |-> nonce]
    IN  [index |-> index, timestamp |-> timestamp, data |-> data,
         previous_hash |-> previous_hash, nonce |-> nonce,
         hash |-> calculate_hash(fields)]

(* ----------------------------- Blockchain ------------------------------ *)

DIFFICULTY_TARGET == S(<<"0", "0", "0", "0">>)

\* The reward amount 1.0, in tenths.
REWARD == 10
REWARD_SENDER == "0 (System Reward)"

\* What proof_of_work yields when the search is not over by MaxNonce.
NoNonce == -1

\* What chain[-1] raises on an empty list.
IndexError == [error |-> "IndexError"]

\* Blockchain.last_block
last_block(c) == IF Len(c) = 0 THEN IndexError ELSE c[Len(c)]

\* create_new_block keeping a hash computed before the nonce was set.
create_new_block_Stale(c, nonce, previous_hash, data, t) ==
    LET block == Block(Len(c), t, data, previous_hash, nonce)
    IN  [block EXCEPT !.hash = calculate_hash([block EXCEPT !.nonce = 0])]

\* create_new_block numbering blocks from 1.
create_new_block_IndexOff(c, nonce, previous_hash, data, t) ==
    LET block == Block(Len(c) + 1, t, data, previous_hash, nonce)
    IN  [block EXCEPT !.hash = calculate_hash(block)]

\* create_new_block hashing the block before its data is set.
create_new_block_NoData(c, nonce, previous_hash, data, t) ==
    LET block == Block(Len(c), t, data, previous_hash, nonce)
    IN  [block EXCEPT !.hash = calculate_hash([block EXCEPT !.data = <<>>])]

\* create_new_block numbering every block after the genesis block 1.
create_new_block_IndexOne(c, nonce, previous_hash, data, t) ==
    LET block == Block(IF c = <<>> THEN 0 ELSE 1, t, data, previous_hash, nonce)
    IN  [block EXCEPT !.hash = calculate_hash(block)]

\* create_new_block storing the nonce after the one it was given.
create_new_block_NonceNext(c, nonce, previous_hash, data, t) ==
    LET block == Block(Len(c), t, data, previous_hash,
                       IF c = <<>> THEN nonce ELSE nonce + 1)
    IN  [block EXCEPT !.hash = calculate_hash(block)]

\* Blockchain.create_new_block: the block it builds, at time t.
create_new_block(c, nonce, previous_hash, data, t) ==
    LET block == Block(Len(c), t, data, previous_hash, nonce)
    IN  [block EXCEPT !.hash = calculate_hash(block)]

\* The test of one guess of the proof-of-work search.
ValidGuess(last_hash, nonce) ==
    LET guess == <<last_hash, Str(nonce)>>
        guess_hash == Sha256Hex(guess)
    IN  Take(guess_hash, Len(DIFFICULTY_TARGET.chars)) = DIFFICULTY_TARGET.chars

RECURSIVE SearchFrom(_, _)
SearchFrom(last_hash, nonce) ==
    IF nonce > MaxNonce THEN NoNonce
    ELSE IF ValidGuess(last_hash, nonce) THEN nonce
    ELSE SearchFrom(last_hash, nonce + 1)

\* proof_of_work starting its search at 1.
proof_of_work_From1(last_hash) == SearchFrom(last_hash, 1)

\* Blockchain.proof_of_work
proof_of_work(last_hash) == SearchFrom(last_hash, 0)

\* add_transaction with sender and recipient exchanged.
add_transaction_Swapped(c, p, sender, recipient, amount, t, oid) ==
    LET transaction == [sender |-> recipient, recipient |-> sender,
                        amount |-> amount, timestamp |-> t, oid |-> oid]
    IN  [pending |-> Append(p, transaction),
         transaction |-> transaction,
         ret |-> last_block(c).index + 1]

\* add_transaction inserting at the front of the list.
add_transaction_Prepend(c, p, sender, recipient, amount, t, oid) ==
    LET transaction == [sender |-> sender, recipient |-> recipient,
                        amount |-> amount, timestamp |-> t, oid |-> oid]
    IN  [pending |-> <<transaction>> \o p,
         transaction |-> transaction,
         ret |-> last_block(c).index + 1]

\* add_transaction returning the index of the last block.
add_transaction_RetIndex(c, p, sender, recipient, amount, t, oid) ==
    LET transaction == [sender |-> sender, recipient |-> recipient,
                        amount |-> amount, timestamp |-> t, oid |-> oid]
    IN  [pending |-> Append(p, transaction),
         transaction |-> transaction,
         ret |-> last_block(c).index]

\* Blockchain.add_transaction on the pending list p: the new list and the
\* value returned.  oid is the identity of the dict object created.
add_transaction(c, p, sender, recipient, amount, t, oid) ==
    LET transaction == [sender |-> sender, recipient |-> recipient,
                        amount |-> amount, timestamp |-> t, oid |-> oid]
    IN  [pending |-> Append(p, transaction),
         transaction |-> transaction,
         ret |-> last_block(c).index + 1]

\* The data of the genesis block.
GenesisData == <<[sender |-> "System", recipient |-> "Genesis", amount |-> 0,
                  oid |-> 0]>>

\* create_genesis_block leaving the nonce at Block's default.
create_genesis_block_Nonce0(t) ==
    create_new_block(<<>>, 0, S(<<"0">>), GenesisData, t)

\* Blockchain.create_genesis_block, at time t.
create_genesis_block(t) == create_new_block(<<>>, 1, S(<<"0">>), GenesisData, t)

\* is_chain_valid without the previous_hash check.
RECURSIVE ValidFrom_NoLink(_, _)
ValidFrom_NoLink(c, i) ==
    IF i >= Len(c) THEN [ok |-> TRUE, block |-> -1, check |-> "none"]
    ELSE IF c[i + 1].hash # calculate_hash(c[i + 1])
         THEN [ok |-> FALSE, block |-> i, check |-> "hash"]
         ELSE ValidFrom_NoLink(c, i + 1)

\* is_chain_valid also checking each block's proof of work.
RECURSIVE ValidFrom_Pow(_, _)
ValidFrom_Pow(c, i) ==
    IF i >= Len(c) THEN [ok |-> TRUE, block |-> -1, check |-> "none"]
    ELSE IF c[i + 1].hash # calculate_hash(c[i + 1])
         THEN [ok |-> FALSE, block |-> i, check |-> "hash"]
         ELSE IF c[i + 1].previous_hash # c[i].hash
         THEN [ok |-> FALSE, block |-> i, check |-> "link"]
         ELSE IF ~ValidGuess(c[i + 1].previous_hash, c[i + 1].nonce)
         THEN [ok |-> FALSE, block |-> i, check |-> "pow"]
         ELSE ValidFrom_Pow(c, i + 1)

\* The verdict of is_chain_valid from Python position i on: whether the chain
\* passes, and if not the position and the check that fails first.
RECURSIVE ValidFrom(_, _)
ValidFrom(c, i) ==
    IF i >= Len(c) THEN [ok |-> TRUE, block |-> -1, check |-> "none"]
    ELSE LET current_block == c[i + 1]
             previous_block == c[i]
         IN  IF current_block.hash # calculate_hash(current_block)
             THEN [ok |-> FALSE, block |-> i, check |-> "hash"]
             ELSE IF current_block.previous_hash # previous_block.hash
             THEN [ok |-> FALSE, block |-> i, check |-> "link"]
             ELSE ValidFrom(c, i + 1)

\* is_chain_valid also checking the stored hash of the genesis block.
is_chain_valid_Genesis(c) ==
    /\ c[1].hash = calculate_hash(c[1])
    /\ ValidFrom(c, 1).ok

\* Blockchain.is_chain_valid
is_chain_valid(c) == ValidFrom(c, 1).ok

(* ------------------------------ actions -------------------------------- *)
(* ret holds the last operation, its arguments and the value it returned.  *)
(* added is a history variable: one record per add_transaction call, with  *)
(* the entry created, the value returned and who called.  tlog is a        *)
(* history variable: the outside mutations made to blocks so far.          *)

\* Blockchain.__init__ at some time t.
Init ==
    \E t \in Times(0) :
        /\ chain = <<create_genesis_block(t)>>
        /\ pending = <<>>
        /\ now = t
        /\ ret = [op |-> "Construct"]
        /\ added = <<>>
        /\ tlog = <<>>

\* A call of add_transaction by the caller.
AddEntry(sender, recipient, amount) ==
    /\ Len(pending) < MaxPending
    /\ \E t \in Times(now) :
       \E r \in {add_transaction(chain, pending, sender, recipient, amount, t,
                                 Len(added) + 1)} :
         /\ pending' = r.pending
         /\ now' = t
         /\ ret' = [op |-> "AddEntry", args |-> <<sender, recipient, amount>>,
                    val |-> r.ret]
         /\ added' = Append(added, [entry |-> r.transaction, ret |-> r.ret,
                                    by |-> "caller"])
         /\ UNCHANGED <<chain, tlog>>

\* The chain with the new block put in front.
chain_append_Front(c, block) == <<block>> \o c

\* self.chain.append(block)
chain_append(c, block) == Append(c, block)

\* The pending list left as it is.
KeepPending(p) == p

\* self.pending_transactions = []
ClearedPending(p) == <<>>

\* A call of mine_pending_transactions.  (Each value computed once is
\* bound by a quantifier over a singleton.)
MineOnce ==
    /\ Len(chain) < MaxChain
    /\ \E transactions_to_mine \in {pending} :
       \E last \in {last_block(chain)} :
       \E nonce \in {proof_of_work(last.hash)} :
         /\ nonce # NoNonce
         /\ \E t1 \in Times(now) :
            \E new_block \in {create_new_block(chain, nonce, last.hash,
                                                transactions_to_mine, t1)} :
            \E grown \in {chain_append(chain, new_block)} :
            \E miner_address \in Miners : \E t2 \in Times(t1) :
            \E r \in {add_transaction(grown, ClearedPending(pending),
                                       REWARD_SENDER, miner_address, REWARD,
                                       t2, Len(added) + 1)} :
              /\ chain' = grown
              /\ pending' = r.pending
              /\ now' = t2
              /\ ret' = [op |-> "MineOnce", args |-> <<miner_address>>,
                         val |-> new_block]
              /\ added' = Append(added, [entry |-> r.transaction,
                                         ret |-> r.ret, by |-> "reward"])
              /\ UNCHANGED tlog

\* is_chain_valid storing each digest it recomputes.
IsChainValid_Rehash ==
    /\ ret' = [op |-> "IsChainValid", val |-> is_chain_valid(chain)]
    /\ chain' = [i \in 1..Len(chain) |->
                    [chain[i] EXCEPT !.hash = calculate_hash(chain[i])]]
    /\ UNCHANGED <<pending, now, added, tlog>>

\* A call of is_chain_valid.
IsChainValid ==
    /\ ret' = [op |-> "IsChainValid", val |-> is_chain_valid(chain)]
    /\ UNCHANGED <<chain, pending, now, added, tlog>>

\* A read of the last_block property.
LastBlock ==
    /\ ret' = [op |-> "LastBlock", val |-> last_block(chain)]
    /\ UNCHANGED <<chain, pending, now, added, tlog>>

\* The operations that extend the ledger.
Ledger ==
    \/ \E s \in Senders, r \in Recipients, a \in Amounts : AddEntry(s, r, a)
    \/ MineOnce

Next ==
    \/ Ledger
    \/ IsChainValid
    \/ LastBlock

Spec == Init /\ [][Next]_vars

(* --------------------- outside mutation of blocks ---------------------- *)
(* Blocks are plain mutable objects: a caller can assign any field of      *)
(* chain[i], as the demonstration at the end of the file does.  One such   *)
(* mutation is explored, optionally followed by one recomputation of a     *)
(* stored hash, on a ledger that is then only read.                        *)

BlockFields == {"index", "timestamp", "data", "previous_hash", "nonce", "hash"}

\* Ways of mutating a block's data in place: append an entry (as the
\* demonstration does), delete the last entry, change the first amount.
DataMutations(data) ==
    {Append(data, [manipulated |-> TRUE, oid |-> -1])}
    \cup (IF data = <<>> THEN {}
          ELSE {SubSeq(data, 1, Len(data) - 1),
                [data EXCEPT ![1].amount = @ + 1]})

\* The values tried for field f of block b.
TamperValues(b, f) ==
    CASE f = "index" -> {b.index + 1}
      [] f = "timestamp" -> {b.timestamp + 1}
      [] f = "nonce" -> {b.nonce + 1}
      [] f = "data" -> DataMutations(b.data)
      [] f = "previous_hash" -> {S(<<"0">>), S(<<"f", "f">>)} \ {b.previous_hash}
      [] f = "hash" -> {S(<<"0">>), Sha256Hex(<<b.hash>>)} \ {b.hash}

\* chain[i].f = v, for a value v other than the field's.
TamperField(i, f) ==
    /\ tlog = <<>>
    /\ i \in 0..(Len(chain) - 1)
    /\ \E v \in TamperValues(chain[i + 1], f) :
         /\ v # chain[i + 1][f]
         /\ chain' = [chain EXCEPT ![i + 1][f] = v]
    /\ tlog' = <<[op |-> "set", block |-> i, field |-> f,
                  valid_before |-> is_chain_valid(chain)]>>
    /\ ret' = [op |-> "Tamper"]
    /\ UNCHANGED <<pending, now, added>>

\* chain[i].hash = chain[i].calculate_hash()
RecomputeHash(i) ==
    /\ Len(tlog) = 1
    /\ i \in 0..(Len(chain) - 1)
    /\ chain' = [chain EXCEPT ![i + 1].hash = calculate_hash(chain[i + 1])]
    /\ tlog' = Append(tlog, [op |-> "rehash", block |-> i])
    /\ ret' = [op |-> "Tamper"]
    /\ UNCHANGED <<pending, now, added>>

NextTamper ==
    \/ tlog = <<>> /\ Ledger
    \/ IsChainValid
    \/ \E i \in 0..(MaxChain - 1), f \in BlockFields : TamperField(i, f)
    \/ \E i \in 0..(MaxChain - 1) : RecomputeHash(i)

SpecTamper == Init /\ [][NextTamper]_vars

(* ------------------- reads, from construction onwards ------------------- *)
(* __init__ sets both lists empty and only then creates the genesis block: *)
(* the ledger is followed from that moment, with last_block and            *)
(* is_chain_valid read in every state, before the genesis block exists     *)
(* and after an outside mutation included.                                 *)

\* Blockchain.__init__ after its first two assignments.
InitEmpty ==
    /\ chain = <<>>
    /\ pending = <<>>
    /\ now = 0
    /\ ret = [op |-> "New"]
    /\ added = <<>>
    /\ tlog = <<>>

\* The call of create_genesis_block that ends __init__.
CreateGenesis ==
    /\ chain = <<>>
    /\ \E t \in Times(now) :
         /\ chain' = chain_append(chain, create_genesis_block(t))
         /\ now' = t
    /\ ret' = [op |-> "Construct"]
    /\ UNCHANGED <<pending, added, tlog>>

NextReads ==
    \/ CreateGenesis
    \/ chain # <<>> /\ NextTamper
    \/ chain = <<>> /\ IsChainValid
    \/ LastBlock

SpecReads == InitEmpty /\ [][NextReads]_vars

(* ------------------------ proof_of_work alone -------------------------- *)

\* The hex texts of length 1..n.
RECURSIVE HexTexts(_)
HexTexts(n) ==
    IF n = 0 THEN {<<>>}
    ELSE LET shorter == HexTexts(n - 1)
         IN  shorter \cup {Append(cs, HexChars[i]) : cs \in shorter, i \in 1..16}

\* The arguments proof_of_work is tried on: short hex strings and digests.
TargetHashes ==
    {S(cs) : cs \in HexTexts(MaxTargetLen) \ {<<>>}}
    \cup {Sha256Hex(<<S(cs)>>) : cs \in HexTexts(1)}

\* A freshly constructed ledger on which proof_of_work(h) is being called.
InitPoW ==
    \E t \in Times(0) : \E h \in TargetHashes :
        /\ chain = <<create_genesis_block(t)>>
        /\ pending = <<>>
        /\ now = t
        /\ ret = [op |-> "call", args |-> <<h>>]
        /\ added = <<>>
        /\ tlog = <<>>

\* The call of proof_of_work returns.
ProofOfWork ==
    /\ ret.op = "call"
    /\ \E nonce \in {proof_of_work(ret.args[1])} :
         /\ nonce # NoNonce
         /\ ret' = [op |-> "ProofOfWork", args |-> ret.args, val |-> nonce]
    /\ UNCHANGED <<chain, pending, now, added, tlog>>

NextPoW == ProofOfWork

SpecPoW == InitPoW /\ [][NextPoW]_vars

(* ------------------ proof_of_work, one guess per step ------------------ *)
(* The loop of proof_of_work taken one pass at a time: ret holds the       *)
(* argument and the loop's nonce until the call returns.  The loop runs    *)
(* on its caller's thread with nothing to wait for, so a pass that can be  *)
(* taken is taken: weak fairness of the loop's steps.                      *)

\* The nonce left as it is.
NextNonce_Same(nonce) == nonce

\* nonce += 1
NextNonce(nonce) == nonce + 1

\* The hashes mine_pending_transactions passes to proof_of_work on a new
\* ledger: the genesis block's, and that of a first block mined at once.
LedgerHashes ==
    UNION {LET genesis == create_genesis_block(t0)
               nonce == proof_of_work(genesis.hash)
           IN  {genesis.hash}
               \cup {create_new_block(<<genesis>>, nonce, genesis.hash,
                                      <<>>, t1).hash : t1 \in Times(t0)}
           : t0 \in Times(0)}

\* A freshly constructed ledger on which proof_of_work(h) has been entered:
\* nonce = 0.
InitSearch ==
    \E t \in Times(0) : \E h \in TargetHashes \cup LedgerHashes :
        /\ chain = <<create_genesis_block(t)>>
        /\ pending = <<>>
        /\ now = t
        /\ ret = [op |-> "search", args |-> <<h>>, nonce |-> 0]
        /\ added = <<>>
        /\ tlog = <<>>

\* A pass of the loop whose guess misses the target.
GuessFails ==
    /\ ret.op = "search"
    /\ ret.nonce < MaxNonce
    /\ ~ValidGuess(ret.args[1], ret.nonce)
    /\ ret' = [ret EXCEPT !.nonce = NextNonce(@)]
    /\ UNCHANGED <<chain, pending, now, added, tlog>>

\* The pass of the loop whose guess meets the target: return nonce.
GuessSucceeds ==
    /\ ret.op = "search"
    /\ ValidGuess(ret.args[1], ret.nonce)
    /\ ret' = [op |-> "ProofOfWork", args |-> ret.args, val |-> ret.nonce]
    /\ UNCHANGED <<chain, pending, now, added, tlog>>

NextSearch ==
    \/ GuessFails
    \/ GuessSucceeds

SpecSearch == InitSearch /\ [][NextSearch]_vars /\ WF_vars(NextSearch)

(* ------------------------------- claims -------------------------------- *)

\* The entries of the blocks at Python positions i.. of c, in order.
RECURSIVE MinedFrom(_, _)
MinedFrom(c, i) ==
    IF i >= Len(c) THEN <<>> ELSE c[i + 1].data \o MinedFrom(c, i + 1)

\* Whether entry e is among the entries of data.
InData(e, data) == \E k \in 1..Len(data) : data[k] = e

\* A step of the operation op (ret names the last operation).
StepOf(op) == ret'.op = op /\ vars' # vars

\* The add_transaction calls made by mine_pending_transactions, oldest first.
Rewards == SelectSeq(added, LAMBDA a : a.by = "reward")

\* C1: after any sequence of AddEntry and MineOnce calls on a fresh ledger,
\* with no outside mutation, is_chain_valid returns true (no check of any
\* block fails), and a call made then returns true.
C1_ValidChainAccepted ==
    /\ ValidFrom(chain, 1) = [ok |-> TRUE, block |-> -1, check |-> "none"]
    /\ is_chain_valid(chain) = TRUE
    /\ ret.op = "IsChainValid" => ret.val = TRUE

\* Genesis and two mined blocks, each holding an entry, validated.
C1_Witness ==
    /\ Len(chain) = 3
    /\ chain[2].data # <<>>
    /\ chain[3].data # <<>>
    /\ ret = [op |-> "IsChainValid", val |-> TRUE]

\* C2: on a chain holding a block 2, once chain[1].data has been mutated and
\* chain[1].hash set to the recomputed digest, is_chain_valid returns false;
\* the first failing check is the link check of block 2, and the self-hash
\* checks of blocks 1 and 2 pass.
C2_Case ==
    /\ Len(chain) >= 3
    /\ Len(tlog) = 2
    /\ tlog[1].op = "set" /\ tlog[1].block = 1 /\ tlog[1].field = "data"
    /\ tlog[2].op = "rehash" /\ tlog[2].block = 1

C2_TamperRehashFailsAtLink ==
    C2_Case =>
        /\ is_chain_valid(chain) = FALSE
        /\ ValidFrom(chain, 1) = [ok |-> FALSE, block |-> 2, check |-> "link"]
        /\ chain[3].previous_hash # chain[2].hash
        /\ chain[2].hash = calculate_hash(chain[2])
        /\ chain[3].hash = calculate_hash(chain[3])
        /\ ret.op = "IsChainValid" => ret.val = FALSE

C2_Witness == C2_Case /\ ret = [op |-> "IsChainValid", val |-> FALSE]

\* C3: in a valid chain of at least two blocks, once one field of chain[1]
\* has been given a different value and chain[1].hash has not been
\* recomputed, is_chain_valid returns false and the first failing check is
\* the self-hash check of block 1.
C3_Case ==
    /\ Len(chain) >= 2
    /\ Len(tlog) = 1
    /\ tlog[1].op = "set" /\ tlog[1].block = 1 /\ tlog[1].valid_before

C3_TamperFailsAtSelfHash ==
    C3_Case =>
        /\ is_chain_valid(chain) = FALSE
        /\ ValidFrom(chain, 1) = [ok |-> FALSE, block |-> 1, check |-> "hash"]
        /\ ret.op = "IsChainValid" => ret.val = FALSE

\* The stored hash itself was changed, and validation has run.  (The other
\* five fields are reached too: see C3_WitnessField.)
C3_Witness ==
    /\ C3_Case
    /\ tlog[1].field = "hash"
    /\ ret = [op |-> "IsChainValid", val |-> FALSE]

C3_WitnessField ==
    /\ C3_Case
    /\ tlog[1].field = "previous_hash"
    /\ Len(chain) = 3
    /\ ret = [op |-> "IsChainValid", val |-> FALSE]

\* C4: every MineOnce call lengthens chain by exactly one block, keeping the
\* blocks it had; the block returned is the new tail, its index is the
\* length before the call and its previous_hash is the hash of the old tail.
C4_AppendMonotone ==
    [][StepOf("MineOnce") =>
        /\ Len(chain') = Len(chain) + 1
        /\ SubSeq(chain', 1, Len(chain)) = chain
        /\ ret'.val = chain'[Len(chain')]
        /\ ret'.val.index = Len(chain)
        /\ ret'.val.previous_hash = chain[Len(chain)].hash]_vars

\* Two blocks have been mined.
C4_Witness == ret.op = "MineOnce" /\ Len(chain) = 3

\* C5: right after MineOnce(minerIdentity) pending holds exactly one entry,
\* the reward: from the reward sentinel, to minerIdentity, of amount 1.0
\* (10 tenths).
C5_OnlyRewardPending ==
    ret.op = "MineOnce" =>
        /\ Len(pending) = 1
        /\ pending[1].sender = "0 (System Reward)"
        /\ pending[1].recipient = ret.args[1]
        /\ pending[1].amount = 10

\* MineOnce called with nothing pending, and with two entries pending.
C5_Witness == ret.op = "MineOnce" /\ ret.val.data = <<>>

C5_WitnessMany == ret.op = "MineOnce" /\ Len(ret.val.data) = 2

\* C6: the entries pending when MineOnce is called are in the block it
\* produces; the reward entry created by the k-th MineOnce call is in none of
\* the blocks 0..k (so not in the block that call produced), it heads pending
\* until the next call, and it is the first entry of block k+1 from then on.
C6_RewardTiming ==
    /\ [][StepOf("MineOnce") =>
            \A k \in 1..Len(pending) : InData(pending[k], ret'.val.data)]_vars
    /\ [](\A k \in 1..Len(Rewards) :
            /\ k < Len(chain)
            /\ \A j \in 0..k : ~InData(Rewards[k].entry, chain[j + 1].data)
            /\ k + 1 = Len(chain) =>
                  pending # <<>> /\ pending[1] = Rewards[k].entry
            /\ k + 1 < Len(chain) =>
                  /\ chain[k + 2].data # <<>>
                  /\ chain[k + 2].data[1] = Rewards[k].entry)

\* The first reward has been mined into block 2, after an entry of the
\* caller's went into block 1.
C6_Witness ==
    /\ Len(chain) = 3
    /\ Len(Rewards) = 2
    /\ chain[3].data[1] = Rewards[1].entry
    /\ \E k \in 1..Len(added) :
          added[k].by = "caller" /\ InData(added[k].entry, chain[2].data)

\* C7: the data of the block MineOnce appends is the pending sequence as it
\* was at the call; and at all times the entries of the mined blocks followed
\* by pending are exactly the entries ever added, in the order added, each a
\* distinct object: none lost, none duplicated.
C7_EntriesMovedVerbatim ==
    /\ [][StepOf("MineOnce") =>
            /\ ret'.val.data = pending
            /\ chain'[Len(chain')].data = pending]_vars
    /\ [](/\ MinedFrom(chain, 1) \o pending
               = [k \in 1..Len(added) |-> added[k].entry]
          /\ \A k \in 1..Len(added) : added[k].entry.oid = k)

\* Two entries were mined together and another is pending behind a reward.
C7_Witness ==
    /\ Len(chain) >= 2
    /\ Len(chain[2].data) = 2
    /\ Len(pending) = 2

\* C8: a freshly constructed ledger has one block, of index 0, previous_hash
\* "0", nonce 1 and the single entry System -> Genesis of amount 0, and
\* nothing pending.
C8_GenesisShape ==
    ret.op = "Construct" =>
        /\ Len(chain) = 1
        /\ chain[1].index = 0
        /\ chain[1].previous_hash = S(<<"0">>)
        /\ chain[1].nonce = 1
        /\ Len(chain[1].data) = 1
        /\ chain[1].data[1].sender = "System"
        /\ chain[1].data[1].recipient = "Genesis"
        /\ chain[1].data[1].amount = 0
        /\ pending = <<>>

C8_Witness == ret.op = "Construct" /\ Len(chain) = 1 /\ chain[1].timestamp = 1

\* Whether the digest of the text h followed by the decimal text of n begins
\* with four zeros.
FourZeros(h, n) ==
    Take(Sha256Hex(<<h, Str(n)>>), 4) = <<"0", "0", "0", "0">>

\* C9: the nonce proof_of_work returns for target_hash is non-negative, the
\* digest of target_hash followed by its decimal text begins with the
\* difficulty prefix, and no smaller non-negative nonce has that property.
C9_ProofOfWorkLeast ==
    ret.op = "ProofOfWork" =>
        /\ ret.val >= 0
        /\ FourZeros(ret.args[1], ret.val)
        /\ \A m \in 0..(ret.val - 1) : ~FourZeros(ret.args[1], m)

\* A search that rejected more than ten nonces before returning.
C9_Witness == ret.op = "ProofOfWork" /\ ret.val > 10

\* A search that returned at once.
C9_WitnessZero == ret.op = "ProofOfWork" /\ ret.val = 0

\* C10: AddEntry(sender, recipient, amount) appends one entry with those
\* fields at the end of pending, leaves chain unchanged and returns
\* len(chain); and every entry the caller added is either still pending or in
\* the data of the block whose index AddEntry returned.
C10_AddEntry ==
    /\ [][StepOf("AddEntry") =>
            /\ Len(pending') = Len(pending) + 1
            /\ SubSeq(pending', 1, Len(pending)) = pending
            /\ pending'[Len(pending')].sender = ret'.args[1]
            /\ pending'[Len(pending')].recipient = ret'.args[2]
            /\ pending'[Len(pending')].amount = ret'.args[3]
            /\ chain' = chain
            /\ ret'.val = Len(chain)]_vars
    /\ [](\A k \in 1..Len(added) :
            added[k].by = "caller" =>
                \/ InData(added[k].entry, pending)
                \/ /\ added[k].ret < Len(chain)
                   /\ InData(added[k].entry, chain[added[k].ret + 1].data))

\* An entry added when the chain had two blocks has been mined into block 2.
C10_Witness ==
    /\ Len(chain) = 3
    /\ \E k \in 1..Len(added) :
          /\ added[k].by = "caller"
          /\ added[k].ret = 2
          /\ InData(added[k].entry, chain[3].data)

\* C11: hash invariant.  In every state reached by construction,
\* add_transaction and mine_pending_transactions, every block of the chain,
\* the genesis block included, stores the digest of its present index,
\* timestamp, data, previous_hash and nonce; and no step changes a block
\* that is already in the chain.
C11_HashInvariant ==
    /\ [](\A i \in 1..Len(chain) : chain[i].hash = calculate_hash(chain[i]))
    /\ [][\A i \in 1..Len(chain) :
            i <= Len(chain') /\ chain'[i] = chain[i]]_vars

\* Two mined blocks, with entries, and a later add_transaction call.
C11_Witness ==
    /\ ret.op = "AddEntry"
    /\ Len(chain) = 3
    /\ chain[2].data # <<>>
    /\ chain[3].data # <<>>

\* C12: append-only chain.  Over add_transaction, mine_pending_transactions,
\* last_block and is_chain_valid, the chain before a step is a prefix of the
\* chain after it (so every earlier chain is a prefix of every later one);
\* the chain is never empty and its first block is the genesis block.
C12_AppendOnly ==
    /\ [][/\ Len(chain') >= Len(chain)
          /\ SubSeq(chain', 1, Len(chain)) = chain]_vars
    /\ [](/\ chain # <<>>
          /\ chain[1] = create_genesis_block(chain[1].timestamp))

\* The chain has grown twice and has since been read.
C12_Witness ==
    /\ Len(chain) = 3
    /\ ret.op = "LastBlock"
    /\ pending # <<>>

\* C13: index invariant.  In every state reached by construction,
\* add_transaction and mine_pending_transactions, the block at position i
\* (from 0) has index i.
C13_IndexInvariant ==
    \A i \in 0..(Len(chain) - 1) : chain[i + 1].index = i

\* Three blocks, the last one just mined.
C13_Witness ==
    /\ ret.op = "MineOnce"
    /\ Len(chain) = 3
    /\ ret.val.index = 2

EmptyChainError == [error |-> "EmptyChainError"]

\* C15: last_block read while the chain is empty fails with the dedicated
\* EmptyChainError, not with an out-of-bounds access.
C15_EmptyChainError ==
    (ret.op = "LastBlock" /\ chain = <<>>) => ret.val = EmptyChainError

\* C16: the genesis block is trusted.  After chain[0]'s index, timestamp,
\* data, previous_hash or nonce is given another value and chain[0].hash is
\* left as it was, is_chain_valid returns what it returned before the
\* change: a valid chain stays valid.
C16_Case ==
    /\ Len(tlog) = 1
    /\ tlog[1].block = 0
    /\ tlog[1].field # "hash"

C16_GenesisTrusted ==
    C16_Case =>
        /\ is_chain_valid(chain) = tlog[1].valid_before
        /\ ret.op = "IsChainValid" => ret.val = tlog[1].valid_before

\* The genesis block's data changed under two mined blocks, and the chain
\* validated since.
C16_Witness ==
    /\ C16_Case
    /\ tlog[1].field = "data"
    /\ Len(chain) = 3
    /\ ret = [op |-> "IsChainValid", val |-> TRUE]

\* C17: tampering with the tail is not detected once its hash is patched.
\* On a valid chain of at least 2 blocks, after the last block's data, nonce,
\* timestamp or index is changed and its hash set to the recomputed digest,
\* is_chain_valid returns true; and in every state is_chain_valid returns
\* true exactly when every block i >= 1 passes its self-hash check and has
\* previous_hash equal to chain[i-1].hash.
C17_Case ==
    /\ Len(tlog) = 2
    /\ Len(chain) >= 2
    /\ tlog[1].valid_before
    /\ tlog[1].block = Len(chain) - 1
    /\ tlog[1].field \in {"data", "nonce", "timestamp", "index"}
    /\ tlog[2].block = tlog[1].block

C17_TailTamperUndetected ==
    /\ C17_Case =>
        /\ is_chain_valid(chain)
        /\ ret.op = "IsChainValid" => ret.val = TRUE
    /\ is_chain_valid(chain) <=>
          \A i \in 1..(Len(chain) - 1) :
              /\ chain[i + 1].hash = calculate_hash(chain[i + 1])
              /\ chain[i + 1].previous_hash = chain[i].hash

\* The last of three blocks had its nonce changed and its hash recomputed,
\* and the chain validated.
C17_Witness ==
    /\ C17_Case
    /\ Len(chain) = 3
    /\ tlog[1].field = "nonce"
    /\ ret = [op |-> "IsChainValid", val |-> TRUE]

\* C18: every mined block carries a valid proof of work for its link.  In
\* every state reached by construction, add_transaction and
\* mine_pending_transactions, for every block i >= 1 the digest of
\* previous_hash followed by the decimal text of nonce begins with the
\* difficulty prefix, no smaller nonce does, and previous_hash is the hash
\* of block i-1: the nonce is determined by the previous block's hash alone.
C18_MinedProofOfWork ==
    \A i \in 1..(Len(chain) - 1) :
        LET b == chain[i + 1]
        IN  /\ b.previous_hash = chain[i].hash
            /\ b.nonce >= 0
            /\ FourZeros(b.previous_hash, b.nonce)
            /\ \A m \in 0..(b.nonce - 1) : ~FourZeros(b.previous_hash, m)

\* Two mined blocks holding different entries.
C18_Witness ==
    /\ Len(chain) = 3
    /\ Len(chain[2].data) = 2
    /\ Len(chain[3].data) = 1
    /\ chain[2].nonce > 0

\* C19: is_chain_valid and last_block are read-only.  A call of either, on
\* a valid chain, a tampered chain or an empty one, leaves chain (every
\* field of every block, the stored hash included) and pending as they
\* were; and the boolean is_chain_valid returned last is the one it returns
\* if called again at once.
C19_ReadOnly ==
    /\ [][(StepOf("IsChainValid") \/ StepOf("LastBlock"))
            => (chain' = chain /\ pending' = pending)]_vars
    /\ [](ret.op = "IsChainValid" => ret.val = is_chain_valid(chain))

\* last_block read on a chain that was tampered with and no longer
\* validates.
C19_Witness ==
    /\ ret.op = "LastBlock"
    /\ Len(tlog) = 2
    /\ ~is_chain_valid(chain)
    /\ pending # <<>>

====
